---- MODULE Spec2Model ----
(***************************************************************************)
(* A model of proxy.js, the Gemini thought_signature bypass proxy:         *)
(*   - the pure transform injectThoughtSignatures over JSON values,        *)
(*   - the two Express routes (the patched chat-completions route and the  *)
(*     catch-all passthrough) behind the express.json() body parser,       *)
(*     each request advancing through its own suspension points.           *)
(***************************************************************************)
EXTENDS Naturals, Sequences, FiniteSets, TLC

VARIABLES
    input,      \* the messages value handed to injectThoughtSignatures
    argAfter,   \* the caller's messages value as it is after the calls returned
    once,       \* injectThoughtSignatures(input)
    twice,      \* injectThoughtSignatures(once)
    tphase,     \* "build" | "once" | "twice"
    phase,      \* per request: where its handling stands
    req,        \* per request: the inbound request
    parsed,     \* per request: req.body as express.json() left it
    handledBy,  \* per request: "none" | "patched" | "passthrough"
    outbound,   \* per request: the fetch() call issued, or NoCall
    failure,    \* per request: the error caught by the handler, or NoError
    resp        \* per request: what the caller has received

tvars == <<input, argAfter, once, twice, tphase>>
svars == <<phase, req, parsed, handledBy, outbound, failure, resp>>
vars == <<input, argAfter, once, twice, tphase,
          phase, req, parsed, handledBy, outbound, failure, resp>>

----------------------------------------------------------------------------
(* Bounds of the model.                                                    *)

MaxMsgs == 2
MaxCalls == 2
NumReqs == 2

----------------------------------------------------------------------------
(* JSON / JavaScript values, tagged by their type.                         *)

Undef == [t |-> "undefined"]
Null == [t |-> "null"]
Str(s) == [t |-> "string", s |-> s]
Num(n) == [t |-> "number", n |-> n]
Obj(f) == [t |-> "object", f |-> f]
Arr(a) == [t |-> "array", a |-> a]

EmptyObj == Obj(<<>>)

\* A thrown TypeError, as the value of an evaluation that did not return.
TypeError == [t |-> "throw", message |-> "Cannot read properties of null (reading 'role')"]

\* Not a value of the program: the slot has not been computed yet.
NotYet == [t |-> "notyet"]

Nullish(v) == v.t \in {"undefined", "null"}

\* v[k] for a property read that cannot throw (v?.k, or v known non-nullish):
\* a missing key, and any key of a primitive, reads as undefined.
Get(v, k) == IF v.t = "object" /\ k \in DOMAIN v.f THEN v.f[k] ELSE Undef

\* JavaScript truthiness, as `if (x)` and `x || y` decide it.
Truthy(v) ==
    CASE v.t = "undefined" -> FALSE
      [] v.t = "null" -> FALSE
      [] v.t = "string" -> v.s # ""
      [] v.t = "number" -> v.n # 0
      [] OTHER -> TRUE

\* The own enumerable properties an object spread {...v} copies: those of an
\* object; none for null, undefined or a number.
OwnProps(v) == IF v.t = "object" THEN v.f ELSE <<>>

\* { ...f, k: x }
Put(f, k, x) == [j \in (DOMAIN f) \cup {k} |-> IF j = k THEN x ELSE f[j]]

----------------------------------------------------------------------------
(* Configuration constants of proxy.js.                                    *)

BYPASS_SIGNATURE == "skip_thought_signature_validator"
PATCHED_MODEL_ID == "models/gemini-3.1-pro-preview-customtools"

----------------------------------------------------------------------------
(* injectThoughtSignatures                                                 *)

\* toolCall?.extra_content?.google?.thought_signature
existingSignature(toolCall) ==
    Get(Get(Get(toolCall, "extra_content"), "google"), "thought_signature")

\* What the literal at `extra_content:` evaluates to.
InjectedExtraContent ==
    Obj("google" :> Obj("thought_signature" :> Str(BYPASS_SIGNATURE)))

\* Faulty variant: overwrites whatever signature is there.
patchToolCall_overwrite(toolCall) ==
    Obj(Put(OwnProps(toolCall), "extra_content", InjectedExtraContent))

\* Faulty variant: creates the container on the first pass and sets the signature
\* only when the container is already there.
patchToolCall_lazyInit(toolCall) ==
    IF Truthy(existingSignature(toolCall))
    THEN toolCall
    ELSE IF Get(Get(toolCall, "extra_content"), "google").t # "object"
    THEN Obj(Put(OwnProps(toolCall), "extra_content", Obj("google" :> EmptyObj)))
    ELSE Obj(Put(OwnProps(toolCall), "extra_content", InjectedExtraContent))

\* The callback of message.tool_calls.map.
patchToolCall(toolCall) ==
    IF Truthy(existingSignature(toolCall))
    THEN toolCall
    ELSE Obj(Put(OwnProps(toolCall), "extra_content", InjectedExtraContent))

\* Faulty variant: rebuilds the message from role and tool_calls only.
patchMessage_dropFields(message) ==
    IF Nullish(message)
    THEN TypeError
    ELSE IF Get(message, "role") # Str("assistant") \/ Get(message, "tool_calls").t # "array"
    THEN message
    ELSE LET tcs == Get(message, "tool_calls").a
         IN Obj("role" :> Get(message, "role") @@
                "tool_calls" :> Arr([i \in 1..Len(tcs) |-> patchToolCall(tcs[i])]))

\* The callback of messages.map; reading .role of null or undefined throws.
patchMessage(message) ==
    IF Nullish(message)
    THEN TypeError
    ELSE IF Get(message, "role") # Str("assistant") \/ Get(message, "tool_calls").t # "array"
    THEN message
    ELSE LET tcs == Get(message, "tool_calls").a
         IN Obj(Put(message.f, "tool_calls",
                    Arr([i \in 1..Len(tcs) |-> patchToolCall(tcs[i])])))

injectThoughtSignatures(messages) ==
    IF messages.t # "array"
    THEN messages
    ELSE LET out == [i \in 1..Len(messages.a) |-> patchMessage(messages.a[i])]
         IN IF \E i \in 1..Len(out) : out[i] = TypeError
            THEN TypeError
            ELSE Arr(out)

\* A call of injectThoughtSignatures: what it returns, and what the argument
\* holds afterwards (map and spread build new values; nothing is assigned
\* into the argument).
InjectCall(messages) ==
    [ret |-> injectThoughtSignatures(messages), arg |-> messages]

----------------------------------------------------------------------------
(* The transform on its own: a messages value is built up element by       *)
(* element, then injectThoughtSignatures is applied to it, and then to its *)
(* own result.                                                             *)

Roles == {"assistant", "user"}

\* tool_calls as a new message may carry it: absent (undefined), not a
\* sequence, or an empty sequence that NewToolCall then fills.
ToolCallsShapes == {Undef, Str("none"), Arr(<<>>)}

MessageOf(role, tcs) ==
    IF tcs = Undef
    THEN Obj("role" :> Str(role) @@ "content" :> Str("hi"))
    ELSE Obj("role" :> Str(role) @@ "content" :> Str("hi") @@ "tool_calls" :> tcs)

\* Messages a client can send; null stands for any malformed element.
Messages == {MessageOf(r, t) : r \in Roles, t \in ToolCallsShapes} \cup {Null}

ToolCallOf(ec) ==
    IF ec = Undef
    THEN Obj("id" :> Str("call_1") @@ "type" :> Str("function"))
    ELSE Obj("id" :> Str("call_1") @@ "type" :> Str("function") @@ "extra_content" :> ec)

Google(sig) == Obj("google" :> Obj("thought_signature" :> Str(sig)))

\* The extra_content of a tool call: absent, null, without google, google
\* without a signature, an empty signature, a real one, the bypass marker,
\* and a signature beside other keys.
ExtraContents ==
    { Undef, Null,
      Obj("vendor" :> Str("x")),
      Obj("google" :> Obj("note" :> Str("y"))),
      Google(""), Google("sig_A"), Google(BYPASS_SIGNATURE),
      Obj("vendor" :> Str("x") @@
          "google" :> Obj("note" :> Str("y") @@ "thought_signature" :> Str("sig_A"))) }

ToolCalls == {ToolCallOf(ec) : ec \in ExtraContents} \cup {Null}

\* Values of `messages` that are not a sequence.
NonSequences == {Undef, Str("hello")}

RECURSIVE CountCalls(_)
CountCalls(ms) ==
    IF ms = <<>>
    THEN 0
    ELSE LET tc == Get(Head(ms), "tool_calls")
         IN (IF tc.t = "array" THEN Len(tc.a) ELSE 0) + CountCalls(Tail(ms))

TStart ==
    /\ input \in {Arr(<<>>)} \cup NonSequences
    /\ argAfter = input
    /\ once = NotYet
    /\ twice = NotYet
    /\ tphase = "build"

NewMessage(m) ==
    /\ tphase = "build"
    /\ input.t = "array"
    /\ Len(input.a) < MaxMsgs
    /\ input' = Arr(Append(input.a, m))
    /\ argAfter' = input'
    /\ UNCHANGED <<once, twice, tphase>>
    /\ UNCHANGED svars

NewToolCall(tc) ==
    /\ tphase = "build"
    /\ input.t = "array"
    /\ Len(input.a) > 0
    /\ CountCalls(input.a) < MaxCalls
    /\ LET n == Len(input.a)
           last == input.a[n]
           tcs == Get(last, "tool_calls")
       IN /\ tcs.t = "array"
          /\ input' = Arr([input.a EXCEPT ![n] =
                              Obj(Put(last.f, "tool_calls", Arr(Append(tcs.a, tc))))])
    /\ argAfter' = input'
    /\ UNCHANGED <<once, twice, tphase>>
    /\ UNCHANGED svars

Transform ==
    /\ tphase = "build"
    /\ LET c == InjectCall(input)
       IN /\ once' = c.ret
          /\ argAfter' = c.arg
    /\ tphase' = "once"
    /\ UNCHANGED <<input, twice>>
    /\ UNCHANGED svars

TransformAgain ==
    /\ tphase = "once"
    /\ once # TypeError
    /\ twice' = InjectCall(once).ret
    /\ tphase' = "twice"
    /\ UNCHANGED <<input, argAfter, once>>
    /\ UNCHANGED svars

----------------------------------------------------------------------------
(* The server: requests, the body parser, the two routes.                  *)

GOOGLE_BASE_URL == <<"https://generativelanguage.googleapis.com">>

\* URLs are sequences of tokens; "?" is a token of its own.
PatchedPath == <<"/v1beta", "/openai", "/v1", "/chat", "/completions">>
ModelsPath == <<"/v1beta", "/openai", "/models">>

\* url.indexOf("?"), counted from 1; 0 when there is none.
IndexOfQuery(url) ==
    IF \E i \in 1..Len(url) : url[i] = "?"
    THEN CHOOSE i \in 1..Len(url) :
           /\ url[i] = "?"
           /\ \A j \in 1..(i - 1) : url[j] # "?"
    ELSE 0

\* req.path: the URL up to its query string.
PathOf(url) ==
    IF IndexOfQuery(url) = 0 THEN url ELSE SubSeq(url, 1, IndexOfQuery(url) - 1)

\* req.url.includes("?") ? req.url.slice(req.url.indexOf("?")) : ""
QueryOf(url) ==
    IF IndexOfQuery(url) = 0 THEN <<>> ELSE SubSeq(url, IndexOfQuery(url), Len(url))

\* req.headers[name] is set and not the empty string.
HasHeader(headers, name) == name \in DOMAIN headers /\ headers[name] # ""

NoReq == [t |-> "norequest"]
NoCall == [t |-> "nocall"]
NoError == [t |-> "noerror"]
UpstreamBody == [t |-> "upstream"]
ErrorPage == [t |-> "html"]

\* Nothing has been sent to the caller.
NoResp == [status |-> 0, ctype |-> Undef, body |-> Undef, complete |-> FALSE]

\* JSON.stringify of an object: the text, held as the value it denotes. A key
\* whose value is undefined is left out; key order is not represented.
Stringify(v) ==
    [t |-> "text",
     json |-> IF v.t = "object"
              THEN Obj([k \in {j \in DOMAIN v.f : v.f[j] # Undef} |-> v.f[k]])
              ELSE v]

\* Faulty variant: the response of the handlers' catch block.
ParseErrorResponse_as502 ==
    [status |-> 502, ctype |-> Str("application/json"),
     body |-> Obj("error" :> Str("proxy_error") @@ "details" :> Str("Unexpected token")),
     complete |-> TRUE]

\* express.json() passes a body it cannot parse to next(err) with status 400;
\* no error-handling middleware is registered, so the framework's default
\* handler answers.
ParseErrorResponse ==
    [status |-> 400, ctype |-> Str("text/html"), body |-> ErrorPage, complete |-> TRUE]

\* express.json() reads the body when there is one and the content type is JSON.
ShouldParse(rq) ==
    /\ rq.raw.t # "none"
    /\ "content-type" \in DOMAIN rq.headers
    /\ rq.headers["content-type"] = "application/json"

\* What express.json() leaves in req.body when it does not read the body:
\* an empty object or nothing, depending on the parser's version.
UnparsedBodies == {EmptyObj, Undef}

\* Faulty variant: a 500 with the same body.
ProxyError_500(err) ==
    [status |-> 500, ctype |-> Str("application/json"),
     body |-> Obj("error" :> Str("proxy_error") @@ "details" :> Str(err.message)),
     complete |-> TRUE]

\* res.status(502).json({ error: "proxy_error", details: err.message })
ProxyError(err) ==
    [status |-> 502, ctype |-> Str("application/json"),
     body |-> Obj("error" :> Str("proxy_error") @@ "details" :> Str(err.message)),
     complete |-> TRUE]

\* Faulty variant: every model is patched.
RequiresPatch_always(model) == TRUE

\* model === PATCHED_MODEL_ID
RequiresPatch(model) == model = Str(PATCHED_MODEL_ID)

\* Faulty variant: the client's path is kept.
PatchedUpstreamUrl_unrewritten == GOOGLE_BASE_URL \o PatchedPath

\* `${GOOGLE_BASE_URL}/v1beta/openai/chat/completions`
PatchedUpstreamUrl == GOOGLE_BASE_URL \o <<"/v1beta", "/openai", "/chat", "/completions">>

\* forwardHeaders of the patched route.
PatchedForwardHeaders(headers) ==
    LET ct == "content-type" :> (IF HasHeader(headers, "content-type")
                                 THEN headers["content-type"]
                                 ELSE "application/json")
    IN IF HasHeader(headers, "authorization")
       THEN ct @@ ("authorization" :> headers["authorization"])
       ELSE ct

\* Faulty variant: every inbound header is forwarded.
PassthroughForwardHeaders_all(headers) == headers

\* forwardHeaders of the passthrough route.
PassthroughForwardHeaders(headers) ==
    [h \in {n \in {"authorization", "content-type", "accept"} : HasHeader(headers, n)}
       |-> headers[h]]

\* The patched route up to its fetch(): the call it issues, or the error it
\* throws on the way.
PatchedCall(rq, reqBody) ==
    LET body == IF Nullish(reqBody) THEN EmptyObj ELSE reqBody
        messages == Get(body, "messages")
        model == Get(body, "model")
        rest == [k \in DOMAIN OwnProps(body) \ {"messages", "model"} |-> body.f[k]]
        requiresPatch == RequiresPatch(model)
        patchedMessages ==
            IF requiresPatch THEN injectThoughtSignatures(messages) ELSE messages
    IN IF requiresPatch /\ patchedMessages = TypeError
       THEN TypeError
       ELSE [t |-> "call",
             url |-> PatchedUpstreamUrl,
             method |-> "POST",
             headers |-> PatchedForwardHeaders(rq.headers),
             body |-> Stringify(Obj(("messages" :> patchedMessages)
                                    @@ ("model" :> model) @@ rest))]

\* The passthrough route up to its fetch().
PassthroughCall(rq, reqBody) ==
    [t |-> "call",
     url |-> GOOGLE_BASE_URL \o PathOf(rq.url) \o QueryOf(rq.url),
     method |-> rq.method,
     headers |-> PassthroughForwardHeaders(rq.headers),
     body |-> IF rq.method # "GET" /\ rq.method # "HEAD" /\ Truthy(reqBody)
              THEN Stringify(reqBody)
              ELSE Undef]

\* Express hands a request to the first route it matches.
MatchesPatched(rq) == rq.method = "POST" /\ PathOf(rq.url) = PatchedPath

\* ---- the requests a client may send ----

Methods == {"POST", "GET", "HEAD", "PUT"}

Urls ==
    { PatchedPath,
      PatchedPath \o <<"?", "key=abc">>,
      <<"/v1beta", "/openai", "/chat", "/completions">>,
      ModelsPath,
      ModelsPath \o <<"?", "pageSize=5", "?", "x=1">> }

HeaderNames == {"authorization", "content-type", "accept", "x-custom"}

HeaderValues(name) ==
    CASE name = "authorization" -> {"", "Bearer T"}
      [] name = "content-type" -> {"", "application/json", "text/plain"}
      [] name = "accept" -> {"*/*"}
      [] OTHER -> {"secret"}

AllHeaderValues == UNION {HeaderValues(n) : n \in HeaderNames}

InboundHeaders ==
    UNION { {h \in [D -> AllHeaderValues] : \A n \in D : h[n] \in HeaderValues(n)}
            : D \in SUBSET HeaderNames }

\* An assistant message with two tool calls: one without a signature, one
\* carrying its own.
AssistantTurn ==
    Obj("role" :> Str("assistant") @@ "content" :> Null @@
        "tool_calls" :> Arr(<<ToolCallOf(Undef), ToolCallOf(Google("sig_A"))>>))

BodyMessages ==
    { Undef,
      Arr(<<MessageOf("user", Undef)>>),
      Arr(<<MessageOf("user", Undef), AssistantTurn>>),
      Arr(<<Null>>) }

BodyModels == {Undef, Str(PATCHED_MODEL_ID), Str("gpt-4o")}

Document(model, messages) ==
    Obj([k \in {"temperature"}
              \cup (IF model = Undef THEN {} ELSE {"model"})
              \cup (IF messages = Undef THEN {} ELSE {"messages"})
           |-> CASE k = "model" -> model
                 [] k = "messages" -> messages
                 [] OTHER -> Num(1)])

RawBodies ==
    { [t |-> "none"], [t |-> "malformed"] }
    \cup { [t |-> "json", v |-> Document(m, ms)] : m \in BodyModels, ms \in BodyMessages }

JsonHeaders == ("content-type" :> "application/json") @@ ("authorization" :> "Bearer T")

\* The requests of the one-at-a-time runs: every header combination on
\* both routes with and without a body, and every body, method and URL under
\* two header sets.
Requests ==
    { [method |-> m, url |-> u, headers |-> h, raw |-> b] :
        m \in {"POST", "GET"}, u \in {PatchedPath, ModelsPath}, h \in InboundHeaders,
        b \in { [t |-> "none"], [t |-> "malformed"],
                [t |-> "json", v |-> Document(Str("gpt-4o"), Undef)] } }
    \cup
    { [method |-> m, url |-> u, headers |-> h, raw |-> b] :
        m \in Methods, u \in Urls, h \in {JsonHeaders, <<>>}, b \in RawBodies }


\* The requests of the concurrent runs: one of each course a request can take.
ConcurrentRequests ==
    { [method |-> "POST", url |-> PatchedPath, headers |-> JsonHeaders,
       raw |-> [t |-> "json",
                v |-> Document(Str(PATCHED_MODEL_ID),
                               Arr(<<MessageOf("user", Undef), AssistantTurn>>))]],
      [method |-> "POST", url |-> PatchedPath, headers |-> JsonHeaders,
       raw |-> [t |-> "json", v |-> Document(Str(PATCHED_MODEL_ID), Arr(<<Null>>))]],
      [method |-> "POST", url |-> PatchedPath, headers |-> JsonHeaders,
       raw |-> [t |-> "malformed"]],
      [method |-> "GET", url |-> ModelsPath, headers |-> JsonHeaders,
       raw |-> [t |-> "none"]] }

Reqs == 1..NumReqs

SIdle ==
    /\ phase = [r \in Reqs |-> "idle"]
    /\ req = [r \in Reqs |-> NoReq]
    /\ parsed = [r \in Reqs |-> Undef]
    /\ handledBy = [r \in Reqs |-> "none"]
    /\ outbound = [r \in Reqs |-> NoCall]
    /\ failure = [r \in Reqs |-> NoError]
    /\ resp = [r \in Reqs |-> NoResp]

TIdle ==
    /\ input = Undef
    /\ argAfter = Undef
    /\ once = NotYet
    /\ twice = NotYet
    /\ tphase = "build"

\* A request arrives.
Receive(r, rq) ==
    /\ phase[r] = "idle"
    /\ req' = [req EXCEPT ![r] = rq]
    /\ phase' = [phase EXCEPT ![r] = "received"]
    /\ UNCHANGED <<parsed, handledBy, outbound, failure, resp>>
    /\ UNCHANGED tvars

\* app.use(express.json({ limit: "50mb" }))
JsonMiddleware(r) ==
    /\ phase[r] = "received"
    /\ IF ShouldParse(req[r])
       THEN IF req[r].raw.t = "malformed"
            THEN /\ resp' = [resp EXCEPT ![r] = ParseErrorResponse]
                 /\ phase' = [phase EXCEPT ![r] = "done"]
                 /\ UNCHANGED parsed
            ELSE /\ parsed' = [parsed EXCEPT ![r] = req[r].raw.v]
                 /\ phase' = [phase EXCEPT ![r] = "parsed"]
                 /\ UNCHANGED resp
       ELSE /\ \E b \in UnparsedBodies : parsed' = [parsed EXCEPT ![r] = b]
            /\ phase' = [phase EXCEPT ![r] = "parsed"]
            /\ UNCHANGED resp
    /\ UNCHANGED <<req, handledBy, outbound, failure>>
    /\ UNCHANGED tvars

\* A handler's run from its start to its await: on a throw the catch block
\* answers, otherwise the call is in flight.
RunHandler(r, name, call) ==
    /\ handledBy' = [handledBy EXCEPT ![r] = name]
    /\ IF call.t = "throw"
       THEN /\ failure' = [failure EXCEPT ![r] = call]
            /\ resp' = [resp EXCEPT ![r] = ProxyError(call)]
            /\ phase' = [phase EXCEPT ![r] = "done"]
            /\ UNCHANGED outbound
       ELSE /\ outbound' = [outbound EXCEPT ![r] = call]
            /\ phase' = [phase EXCEPT ![r] = "awaiting"]
            /\ UNCHANGED <<failure, resp>>
    /\ UNCHANGED <<req, parsed>>
    /\ UNCHANGED tvars

\* app.post("/v1beta/openai/v1/chat/completions", ...) up to await fetch(...)
PatchedRoute(r) ==
    /\ phase[r] = "parsed"
    /\ MatchesPatched(req[r])
    /\ RunHandler(r, "patched", PatchedCall(req[r], parsed[r]))

\* app.all("*", ...) up to await fetch(...)
Passthrough(r) ==
    /\ phase[r] = "parsed"
    /\ ~MatchesPatched(req[r])
    /\ RunHandler(r, "passthrough", PassthroughCall(req[r], parsed[r]))

\* Errors fetch() rejects with.
FetchErrors ==
    { [t |-> "throw", message |-> "connect ECONNREFUSED"],
      [t |-> "throw", message |-> "network timeout"] }

\* fetch() rejects: the catch block answers.
FetchReject(r, err) ==
    /\ phase[r] = "awaiting"
    /\ failure' = [failure EXCEPT ![r] = err]
    /\ resp' = [resp EXCEPT ![r] = ProxyError(err)]
    /\ phase' = [phase EXCEPT ![r] = "done"]
    /\ UNCHANGED <<req, parsed, handledBy, outbound>>
    /\ UNCHANGED tvars

\* What the upstream may answer: a status, and a content-type header or none.
UpstreamAnswers ==
    { [status |-> 200, ct |-> Str("text/event-stream")],
      [status |-> 200, ct |-> Null],
      [status |-> 400, ct |-> Str("application/json")] }

\* fetch() resolves: status and content-type are copied and the body is piped.
FetchResolve(r, upstreamResponse) ==
    /\ phase[r] = "awaiting"
    /\ resp' = [resp EXCEPT ![r] =
                  [status |-> upstreamResponse.status,
                   ctype |-> IF Truthy(upstreamResponse.ct)
                             THEN upstreamResponse.ct
                             ELSE Undef,
                   body |-> UpstreamBody,
                   complete |-> FALSE]]
    /\ phase' = [phase EXCEPT ![r] = "streaming"]
    /\ UNCHANGED <<req, parsed, handledBy, outbound, failure>>
    /\ UNCHANGED tvars

\* The upstream body ends: pipe() ends the response.
StreamEnd(r) ==
    /\ phase[r] = "streaming"
    /\ resp' = [resp EXCEPT ![r].complete = TRUE]
    /\ phase' = [phase EXCEPT ![r] = "done"]
    /\ UNCHANGED <<req, parsed, handledBy, outbound, failure>>
    /\ UNCHANGED tvars

\* The upstream body fails while it is piped: the handler has returned, so its
\* catch block does not run, and pipe() does not end the response.
StreamError(r) ==
    /\ phase[r] = "streaming"
    /\ phase' = [phase EXCEPT ![r] = "stalled"]
    /\ UNCHANGED <<req, parsed, handledBy, outbound, failure, resp>>
    /\ UNCHANGED tvars

----------------------------------------------------------------------------
(* Properties of the transform.                                            *)

\* The transform has been applied to a sequence and returned.
Transformed == tphase # "build" /\ input.t = "array" /\ once.t = "array"

\* Message i is one the transform rewrites.
Candidate(ms, i) ==
    /\ ms[i].t = "object"
    /\ Get(ms[i], "role") = Str("assistant")
    /\ Get(ms[i], "tool_calls").t = "array"

CallsOf(ms, i) == Get(ms[i], "tool_calls").a

\* C1: the transform is idempotent: applied to its own result it returns
\* that result unchanged, for tool calls with no signature, an empty one or
\* a non-empty one alike.
C1_Idempotent == tphase = "twice" => twice = once

C1_Witness ==
    /\ tphase = "twice"
    /\ once.t = "array"
    /\ once # input
    /\ \E i \in 1..Len(input.a) :
          /\ Candidate(input.a, i)
          /\ \E j \in 1..Len(CallsOf(input.a, i)) :
                existingSignature(CallsOf(input.a, i)[j]) = Str("")

\* C2: a tool call of an assistant message that has no
\* extra_content.google.thought_signature comes out with exactly the bypass
\* marker there and with every other field as it was, the other keys under
\* extra_content and extra_content.google included.
C2_InjectionKeepsOtherFields ==
    Transformed =>
      \A i \in 1..Len(input.a) :
        Candidate(input.a, i) =>
          \A j \in 1..Len(CallsOf(input.a, i)) :
            LET tin == CallsOf(input.a, i)[j]
                tout == CallsOf(once.a, i)[j]
                ecin == Get(tin, "extra_content")
                ecout == Get(tout, "extra_content")
                gin == Get(ecin, "google")
                gout == Get(ecout, "google")
            IN (tin.t = "object" /\ existingSignature(tin) = Undef) =>
                 /\ existingSignature(tout) = Str("skip_thought_signature_validator")
                 /\ \A k \in DOMAIN tin.f \ {"extra_content"} :
                       Get(tout, k) = tin.f[k]
                 /\ \A k \in DOMAIN OwnProps(ecin) \ {"google"} :
                       Get(ecout, k) = ecin.f[k]
                 /\ \A k \in DOMAIN OwnProps(gin) \ {"thought_signature"} :
                       Get(gout, k) = gin.f[k]

\* C8: a tool call that already carries a non-empty signature is returned
\* as it was, whatever the signature is.
C8_ExistingSignatureKept ==
    Transformed =>
      \A i \in 1..Len(input.a) :
        Candidate(input.a, i) =>
          \A j \in 1..Len(CallsOf(input.a, i)) :
            LET tin == CallsOf(input.a, i)[j]
                sig == existingSignature(tin)
            IN (sig.t = "string" /\ sig.s # "") => CallsOf(once.a, i)[j] = tin

C8_Witness ==
    /\ Transformed
    /\ \E i \in 1..Len(input.a) :
          /\ Candidate(input.a, i)
          /\ \E j \in 1..Len(CallsOf(input.a, i)) :
                /\ existingSignature(CallsOf(input.a, i)[j]) = Str("sig_A")
                /\ Get(Get(CallsOf(input.a, i)[j], "extra_content"), "vendor") = Str("x")

\* C9: the result has the length and order of the input; a message that is
\* not an assistant message, or whose tool_calls is absent or not a
\* sequence, is unchanged; a rewritten message keeps every field other than
\* tool_calls, and as many tool calls; the input itself is left as it was.
C9_Frame ==
    /\ tphase # "build" => argAfter = input
    /\ (tphase # "build" /\ input.t # "array") => once = input
    /\ Transformed =>
         /\ Len(once.a) = Len(input.a)
         /\ \A i \in 1..Len(input.a) :
               IF Candidate(input.a, i)
               THEN /\ DOMAIN once.a[i].f = DOMAIN input.a[i].f
                    /\ \A k \in DOMAIN input.a[i].f \ {"tool_calls"} :
                          once.a[i].f[k] = input.a[i].f[k]
                    /\ Len(CallsOf(once.a, i)) = Len(CallsOf(input.a, i))
               ELSE once.a[i] = input.a[i]

C9_Witness ==
    /\ Transformed
    /\ Len(input.a) = 2
    /\ \E i, j \in 1..Len(input.a) :
          /\ Candidate(input.a, i)
          /\ once.a[i] # input.a[i]
          /\ ~Candidate(input.a, j)
          /\ Get(input.a[j], "tool_calls").t = "array"

\* C11: the transform never fails: a messages value that is absent or not a
\* sequence is returned unchanged, and a sequence with malformed elements (a
\* null message, a null tool call) yields a result rather than an error.
C11_NeverThrows ==
    tphase # "build" =>
      /\ once.t # "throw"
      /\ input.t # "array" => once = input

----------------------------------------------------------------------------
(* Properties of the routes.                                               *)

\* The request's path is the literal path of the patched route: the URL is
\* that path, alone or followed by a query string.
IsPatchedPath(url) ==
    LET p == <<"/v1beta", "/openai", "/v1", "/chat", "/completions">>
    IN \/ url = p
       \/ Len(url) > 5 /\ SubSeq(url, 1, 5) = p /\ url[6] = "?"

\* Any step of request r.
StepOf(r) ==
    \/ JsonMiddleware(r)
    \/ PatchedRoute(r)
    \/ Passthrough(r)
    \/ \E err \in FetchErrors : FetchReject(r, err)
    \/ \E up \in UpstreamAnswers : FetchResolve(r, up)
    \/ StreamEnd(r)
    \/ StreamError(r)

\* Request r has arrived and nothing more will happen to it.
Settled(r) == phase[r] # "idle" /\ ~ENABLED StepOf(r)

\* C3: on the patched route the outbound messages are the transform of the
\* inbound ones when the model is the patched model, and the inbound ones
\* themselves for any other model or none; on the passthrough route the body
\* sent is the inbound body, whatever the model.
C3_ModelGating ==
    \A r \in Reqs :
      outbound[r] # NoCall =>
        LET inMsgs == Get(parsed[r], "messages")
            model == Get(parsed[r], "model")
            sent == outbound[r].body
            outMsgs == IF sent = Undef THEN Undef ELSE Get(sent.json, "messages")
        IN /\ handledBy[r] = "passthrough" => (sent = Undef \/ sent.json = parsed[r])
           /\ handledBy[r] = "patched" =>
                IF model = Str("models/gemini-3.1-pro-preview-customtools")
                THEN outMsgs = injectThoughtSignatures(inMsgs)
                ELSE outMsgs = inMsgs

C3_Witness ==
    \E r \in Reqs :
      /\ outbound[r] # NoCall
      /\ handledBy[r] = "patched"
      /\ Get(parsed[r], "model") = Str("gpt-4o")
      /\ Get(parsed[r], "messages") = Arr(<<MessageOf("user", Undef), AssistantTurn>>)
      /\ injectThoughtSignatures(Get(parsed[r], "messages")) # Get(parsed[r], "messages")

C5_AsStated ==
    \A r \in Reqs :
      outbound[r] # NoCall =>
        LET hin == req[r].headers
            hout == outbound[r].headers
        IN IF handledBy[r] = "patched"
           THEN /\ DOMAIN hout \subseteq {"content-type", "authorization"}
                /\ "content-type" \in DOMAIN hout
                /\ hout["content-type"] = IF "content-type" \in DOMAIN hin
                                          THEN hin["content-type"]
                                          ELSE "application/json"
                /\ "authorization" \in DOMAIN hout =>
                     /\ "authorization" \in DOMAIN hin
                     /\ hout["authorization"] = hin["authorization"]
           ELSE /\ DOMAIN hout \subseteq
                     {"authorization", "content-type", "accept"} \cap DOMAIN hin
                /\ \A n \in DOMAIN hout : hout[n] = hin[n]

\* C5, amended: a header counts as present when it is there with a non-empty
\* value. The patched route sends exactly content-type (the inbound value, or
\* application/json when absent or empty) plus authorization when present;
\* the passthrough route sends exactly those of authorization, content-type
\* and accept that are present; each with its inbound value, and nothing else.
C5_HeaderAllowList ==
    \A r \in Reqs :
      outbound[r] # NoCall =>
        LET hin == req[r].headers
            hout == outbound[r].headers
            Present(n) == n \in DOMAIN hin /\ hin[n] # ""
        IN IF handledBy[r] = "patched"
           THEN /\ DOMAIN hout = {"content-type"}
                                 \cup {n \in {"authorization"} : Present(n)}
                /\ hout["content-type"] = IF Present("content-type")
                                          THEN hin["content-type"]
                                          ELSE "application/json"
                /\ Present("authorization") =>
                     hout["authorization"] = hin["authorization"]
           ELSE /\ DOMAIN hout =
                     {n \in {"authorization", "content-type", "accept"} : Present(n)}
                /\ \A n \in DOMAIN hout : hout[n] = hin[n]

C5_Witness ==
    \E r \in Reqs :
      /\ outbound[r] # NoCall
      /\ handledBy[r] = "patched"
      /\ req[r].headers = ("x-custom" :> "secret") @@ ("authorization" :> "Bearer T")
                          @@ ("content-type" :> "application/json")
      /\ outbound[r].headers = ("authorization" :> "Bearer T")
                               @@ ("content-type" :> "application/json")

\* C6: when building or issuing the outbound call fails, on either route, the
\* caller gets status 502 and a JSON body whose error is "proxy_error" and
\* whose details is the failure's message.
C6_ProxyError ==
    \A r \in Reqs :
      failure[r] # NoError =>
        /\ resp[r].status = 502
        /\ resp[r].body = Obj("error" :> Str("proxy_error")
                              @@ "details" :> Str(failure[r].message))
        /\ resp[r].complete

C6_Witness ==
    \E r1, r2 \in Reqs :
      /\ handledBy[r1] = "patched"
      /\ handledBy[r2] = "passthrough"
      /\ failure[r1] # NoError
      /\ outbound[r1] # NoCall
      /\ failure[r2] # NoError

\* C7: every request a route has handled ends with one complete outcome, the
\* upstream response or the structured 502 body, also when the upstream
\* response fails after it has started streaming.
C7_EveryRequestAnswered ==
    \A r \in Reqs :
      (handledBy[r] # "none" /\ Settled(r)) =>
        /\ resp[r].complete
        /\ \/ resp[r].body = UpstreamBody
           \/ resp[r].status = 502 /\ Get(resp[r].body, "error") = Str("proxy_error")

\* The inbound body of request r was read as JSON and did not parse.
ParseFailed(r) ==
    /\ phase[r] \notin {"idle", "received"}
    /\ req[r].raw.t = "malformed"
    /\ "content-type" \in DOMAIN req[r].headers
    /\ req[r].headers["content-type"] = "application/json"

\* C10, as stated: a body that fails JSON parsing gets the 502 of an
\* upstream-bound failure.
C10_AsStated ==
    \A r \in Reqs : ParseFailed(r) => resp[r].status = 502

\* C10, amended: a body that fails JSON parsing gets a complete 400 error
\* response from the framework; no route handles the request, no outbound
\* call is made and the handlers' 502 is not sent.
C10_ParseFailure ==
    \A r \in Reqs :
      ParseFailed(r) =>
        /\ resp[r].status = 400
        /\ resp[r].complete
        /\ resp[r].body # UpstreamBody
        /\ handledBy[r] = "none"
        /\ outbound[r] = NoCall
        /\ failure[r] = NoError

C10_Witness ==
    \E r \in Reqs :
      /\ ParseFailed(r)
      /\ req[r].method = "POST"
      /\ req[r].url = PatchedPath
      /\ phase[r] = "done"

\* C12: on the passthrough route the outbound call has the inbound method;
\* GET and HEAD send no body; any other method sends no body when the inbound
\* request had none, and sends the parsed inbound body re-serialized when the
\* inbound request had a body that was read as JSON.
C12_PassthroughBody ==
    \A r \in Reqs :
      (handledBy[r] = "passthrough" /\ outbound[r] # NoCall) =>
        /\ outbound[r].method = req[r].method
        /\ req[r].method \in {"GET", "HEAD"} => outbound[r].body = Undef
        /\ req[r].method \notin {"GET", "HEAD"} =>
             /\ req[r].raw.t = "none" => outbound[r].body = Undef
             /\ req[r].raw.t = "json" /\ ShouldParse(req[r]) =>
                  /\ outbound[r].body # Undef
                  /\ outbound[r].body.json = req[r].raw.v

----------------------------------------------------------------------------
(* Specifications.                                                         *)

\* One request at a time, over every request of Requests.
Init == TIdle /\ SIdle

Next ==
    \/ \E rq \in Requests : Receive(1, rq)
    \/ JsonMiddleware(1)
    \/ PatchedRoute(1)
    \/ Passthrough(1)
    \/ \E err \in FetchErrors : FetchReject(1, err)
    \/ \E up \in UpstreamAnswers : FetchResolve(1, up)
    \/ StreamEnd(1)
    \/ StreamError(1)

Spec == Init /\ [][Next]_vars

\* Requests handled concurrently: the steps of different requests interleave.
ConcurrentNext ==
    \/ \E r \in Reqs, rq \in ConcurrentRequests : Receive(r, rq)
    \/ \E r \in Reqs : JsonMiddleware(r)
    \/ \E r \in Reqs : PatchedRoute(r)
    \/ \E r \in Reqs : Passthrough(r)
    \/ \E r \in Reqs : FetchReject(r, [t |-> "throw", message |-> "network timeout"])
    \/ \E r \in Reqs : FetchResolve(r, [status |-> 200, ct |-> Null])
    \/ \E r \in Reqs : StreamEnd(r)
    \/ \E r \in Reqs : StreamError(r)

SpecConcurrent == Init /\ [][ConcurrentNext]_vars

\* The transform applied to one built-up messages value.
TransformInit == TStart /\ SIdle

TransformNext ==
    \/ \E m \in Messages : NewMessage(m)
    \/ \E tc \in ToolCalls : NewToolCall(tc)
    \/ Transform
    \/ TransformAgain

SpecTransform == TransformInit /\ [][TransformNext]_vars

====
